---- MODULE Spec2Model ----
(***************************************************************************)
(* Component registry and dependency injector of rspring-core              *)
(* (container/registry.rs, container/injection.rs).                        *)
(*                                                                         *)
(* A type identity (TypeId) is a string.  The two stores, the metadata     *)
(* table and the edge table are HashMaps: they are functions whose DOMAIN  *)
(* is the key set.  A HashMap is iterated in an unspecified order, so      *)
(* every loop over one takes the order as a parameter and the callers      *)
(* range over all of them.                                                 *)
(***************************************************************************)
EXTENDS Integers, Sequences, FiniteSets, TLC

\* The static types the callers instantiate the generic methods with.
Types == {"A", "B"}

\* The static types of the registries the graph algorithms are run on.
GraphTypes == {"A", "B", "C"}

\* The type identities of the edge tables the cycle check is run on.
DetectTypes == {"A", "B", "C", "D"}

\* Largest number of edges of the edge tables the cycle check is run on.
MaxDetectEdges == 4

\* The `name: Option<String>` arguments the callers pass.
NameArgs == {"None", "svc"}

\* Largest number of edges the edge table holds, over all dependents.
MaxEdges == 2

\* Largest number of edges of the registries the graph algorithms are run on.
MaxGraphEdges == 3

\* The independent holders of singleton handles.
MaxHolders == 2

Holders == 1..MaxHolders

\* A holder without a handle.
NoHandle == [type_id |-> "None", ptr |-> 0]

\* Longest `dependencies: Vec<TypeId>` argument of register*_with_dependencies.
MaxDepsArg == 2

VARIABLES
    components,            \* registry.components: TypeId -> stored Box<dyn Any>
    singletons,            \* registry.singletons: TypeId -> stored Arc<dyn Any>
    metadata,              \* registry.metadata: TypeId -> ComponentMetadata
    dependencies,          \* registry.dependencies: TypeId -> Vec<TypeId>
    initialization_order,  \* injector.initialization_order: Vec<TypeId>
    order_calculated,      \* injector.order_calculated
    last,                  \* the last call made on the injector and what it returned
    arc_ptr,               \* TypeId -> the allocation the Arc in registry.singletons points to
    arc_strong,            \* allocation -> strong count, for the live Arc allocations
    handles                \* holder -> the Arc<T> it holds: its type and allocation

vars == <<components, singletons, metadata, dependencies,
          initialization_order, order_calculated, last,
          arc_ptr, arc_strong, handles>>

----------------------------------------------------------------------------
\* HashMap helpers

EmptyMap == [k \in {} |-> "None"]

MapInsert(m, k, v) == [x \in (DOMAIN m) \cup {k} |-> IF x = k THEN v ELSE m[x]]

MapRemove(m, k) == [x \in (DOMAIN m) \ {k} |-> m[x]]

Range(s) == {s[i] : i \in 1..Len(s)}

\* All orders in which a HashMap with key set S can be iterated.
Orders(S) == {s \in [1..Cardinality(S) -> S] : Range(s) = S}

\* Vec<TypeId> values of length at most n.
SeqsUpTo(n) == UNION {[1..k -> Types] : k \in 0..n}

RECURSIVE SumLen(_, _)
SumLen(m, S) ==
    IF S = {} THEN 0
    ELSE LET k == CHOOSE x \in S : TRUE
         IN  Len(m[k]) + SumLen(m, S \ {k})

\* Number of edges in an edge table.
EdgeCount(deps) == SumLen(deps, DOMAIN deps)

----------------------------------------------------------------------------
\* ComponentRegistry (registry.rs)

\* The registry as one value.
Registry ==
    [components |-> components, singletons |-> singletons,
     metadata |-> metadata, dependencies |-> dependencies]

\* ComponentRegistry::new
NewRegistry ==
    [components |-> EmptyMap, singletons |-> EmptyMap,
     metadata |-> EmptyMap, dependencies |-> EmptyMap]

\* std::any::type_name::<T>(): the path of the type, one segment per "::".
TypeName(t) == <<"app", "services", t>>

\* name.unwrap_or_else(|| type_name::<T>().split("::").last()...)
ComponentName(t, name) ==
    IF name = "None" THEN TypeName(t)[Len(TypeName(t))] ELSE name

\* The boxed component stored for a `component: T` argument.
Stored(t) == [type_id |-> t]

\* ComponentMetadata (registered_at, a wall-clock timestamp, is left out).
Metadata(t, name, lifecycle) ==
    [name |-> ComponentName(t, name), type_id |-> t,
     lifecycle |-> lifecycle, description |-> "None"]

\* contains_type_id that looks in the prototype store only.
contains_type_id_components_only(r, t) == t \in DOMAIN r.components

\* ComponentRegistry::contains_type_id
contains_type_id(r, t) ==
    t \in DOMAIN r.components \/ t \in DOMAIN r.singletons

\* ComponentRegistry::contains::<T>
contains(r, t) ==
    t \in DOMAIN r.components \/ t \in DOMAIN r.singletons

\* register with a duplicate check that looks at the prototype store only.
register_checks_components_only(r, t, name) ==
    IF t \in DOMAIN r.components
    THEN [reg |-> r, ret |-> "DuplicateRegistration"]
    ELSE [reg |-> [r EXCEPT
                     !.components = MapInsert(r.components, t, Stored(t)),
                     !.metadata = MapInsert(r.metadata, t,
                                            Metadata(t, name, "Prototype"))],
          ret |-> "Ok"]

\* ComponentRegistry::register::<T>: the registry afterwards and the result.
register(r, t, name) ==
    IF t \in DOMAIN r.components \/ t \in DOMAIN r.singletons
    THEN [reg |-> r, ret |-> "DuplicateRegistration"]
    ELSE [reg |-> [r EXCEPT
                     !.components = MapInsert(r.components, t, Stored(t)),
                     !.metadata = MapInsert(r.metadata, t,
                                            Metadata(t, name, "Prototype"))],
          ret |-> "Ok"]

\* register_singleton storing the component in the prototype store.
register_singleton_into_components(r, t, name) ==
    IF t \in DOMAIN r.components \/ t \in DOMAIN r.singletons
    THEN [reg |-> r, ret |-> "DuplicateRegistration"]
    ELSE [reg |-> [r EXCEPT
                     !.components = MapInsert(r.components, t, Stored(t)),
                     !.metadata = MapInsert(r.metadata, t,
                                            Metadata(t, name, "Singleton"))],
          ret |-> "Ok"]

\* ComponentRegistry::register_singleton::<T>
register_singleton(r, t, name) ==
    IF t \in DOMAIN r.components \/ t \in DOMAIN r.singletons
    THEN [reg |-> r, ret |-> "DuplicateRegistration"]
    ELSE [reg |-> [r EXCEPT
                     !.singletons = MapInsert(r.singletons, t, Stored(t)),
                     !.metadata = MapInsert(r.metadata, t,
                                            Metadata(t, name, "Singleton"))],
          ret |-> "Ok"]

\* ComponentRegistry::get::<T>: components.get(&type_id)?.downcast_ref()
get(r, t) ==
    IF t \notin DOMAIN r.components THEN "None"
    ELSE IF r.components[t].type_id = t THEN "Some" ELSE "None"

\* ComponentRegistry::get_singleton::<T>: the stored Arc, checked against T.
get_singleton(r, t) ==
    IF t \notin DOMAIN r.singletons THEN "None"
    ELSE IF r.singletons[t].type_id = t THEN "Some" ELSE "None"

\* remove that also deletes the edges other types declare on the removed type.
remove_purges_incoming_edges(r, t) ==
    LET removed == t \in DOMAIN r.components \/ t \in DOMAIN r.singletons
        comps == MapRemove(r.components, t)
        sings == IF t \in DOMAIN r.components THEN r.singletons
                 ELSE MapRemove(r.singletons, t)
        kept(x) == SelectSeq(r.dependencies[x], LAMBDA d : d # t)
        keys == {x \in DOMAIN r.dependencies \ {t} : kept(x) # <<>>}
    IN  IF removed
        THEN [reg |-> [components |-> comps, singletons |-> sings,
                       metadata |-> MapRemove(r.metadata, t),
                       dependencies |-> [x \in keys |-> kept(x)]],
              ret |-> TRUE]
        ELSE [reg |-> r, ret |-> FALSE]

\* remove that leaves the edge list of the removed type in the edge table.
remove_keeps_edges(r, t) ==
    LET removed == t \in DOMAIN r.components \/ t \in DOMAIN r.singletons
        comps == MapRemove(r.components, t)
        sings == IF t \in DOMAIN r.components THEN r.singletons
                 ELSE MapRemove(r.singletons, t)
    IN  IF removed
        THEN [reg |-> [components |-> comps, singletons |-> sings,
                       metadata |-> MapRemove(r.metadata, t),
                       dependencies |-> r.dependencies],
              ret |-> TRUE]
        ELSE [reg |-> r, ret |-> FALSE]

\* remove that drops the metadata record of a prototype only.
remove_keeps_singleton_metadata(r, t) ==
    LET removed == t \in DOMAIN r.components \/ t \in DOMAIN r.singletons
        comps == MapRemove(r.components, t)
        sings == IF t \in DOMAIN r.components THEN r.singletons
                 ELSE MapRemove(r.singletons, t)
    IN  IF removed
        THEN [reg |-> [components |-> comps, singletons |-> sings,
                       metadata |-> IF t \in DOMAIN r.components
                                    THEN MapRemove(r.metadata, t)
                                    ELSE r.metadata,
                       dependencies |-> MapRemove(r.dependencies, t)],
              ret |-> TRUE]
        ELSE [reg |-> r, ret |-> FALSE]

\* remove that drops the edge list of a type even when the type is not
\* registered.
remove_unregistered_drops_edges(r, t) ==
    LET removed == t \in DOMAIN r.components \/ t \in DOMAIN r.singletons
        comps == MapRemove(r.components, t)
        sings == IF t \in DOMAIN r.components THEN r.singletons
                 ELSE MapRemove(r.singletons, t)
    IN  [reg |-> [components |-> comps, singletons |-> sings,
                  metadata |-> MapRemove(r.metadata, t),
                  dependencies |-> MapRemove(r.dependencies, t)],
         ret |-> removed]

\* remove that looks in the prototype store only.
remove_prototypes_only(r, t) ==
    IF t \in DOMAIN r.components
    THEN [reg |-> [components |-> MapRemove(r.components, t),
                   singletons |-> r.singletons,
                   metadata |-> MapRemove(r.metadata, t),
                   dependencies |-> MapRemove(r.dependencies, t)],
          ret |-> TRUE]
    ELSE [reg |-> r, ret |-> FALSE]

\* ComponentRegistry::remove::<T>
remove(r, t) ==
    LET removed == t \in DOMAIN r.components \/ t \in DOMAIN r.singletons
        \* `||` short-circuits: singletons is touched only if components had no entry
        comps == MapRemove(r.components, t)
        sings == IF t \in DOMAIN r.components THEN r.singletons
                 ELSE MapRemove(r.singletons, t)
    IN  IF removed
        THEN [reg |-> [components |-> comps, singletons |-> sings,
                       metadata |-> MapRemove(r.metadata, t),
                       dependencies |-> MapRemove(r.dependencies, t)],
              ret |-> TRUE]
        ELSE [reg |-> r, ret |-> FALSE]

\* ComponentRegistry::get_metadata::<T>: an Option<&ComponentMetadata>
get_metadata(r, t) ==
    IF t \in DOMAIN r.metadata THEN [some |-> TRUE, value |-> r.metadata[t]]
    ELSE [some |-> FALSE]

\* ComponentRegistry::list_components, for one iteration order of metadata.
list_components(r, ord) == [i \in 1..Len(ord) |-> r.metadata[ord[i]]]

\* ComponentRegistry::stats
stats(r) ==
    [total_components |-> Cardinality(DOMAIN r.components)
                          + Cardinality(DOMAIN r.singletons),
     prototype_components |-> Cardinality(DOMAIN r.components),
     singleton_components |-> Cardinality(DOMAIN r.singletons)]

\* add_dependency that records a dependency once, however often it is declared.
add_dependency_dedups(r, dependent, dependency) ==
    IF dependent \in DOMAIN r.dependencies
       /\ \E i \in 1..Len(r.dependencies[dependent]) :
             r.dependencies[dependent][i] = dependency
    THEN r
    ELSE [r EXCEPT !.dependencies =
            MapInsert(r.dependencies, dependent,
                      Append(IF dependent \in DOMAIN r.dependencies
                             THEN r.dependencies[dependent] ELSE <<>>,
                             dependency))]

\* ComponentRegistry::add_dependency
add_dependency(r, dependent, dependency) ==
    [r EXCEPT !.dependencies =
        MapInsert(r.dependencies, dependent,
                  Append(IF dependent \in DOMAIN r.dependencies
                         THEN r.dependencies[dependent] ELSE <<>>,
                         dependency))]

\* ComponentRegistry::get_dependencies
get_dependencies(r, t) ==
    IF t \in DOMAIN r.dependencies THEN r.dependencies[t] ELSE <<>>

\* clear that empties the stores and the metadata but keeps the edge table.
clear_keeps_edges(r) == [NewRegistry EXCEPT !.dependencies = r.dependencies]

\* ComponentRegistry::clear
clear(r) == NewRegistry

RECURSIVE detect_cycle_dfs(_, _, _)
RECURSIVE DfsDeps(_, _, _, _)

\* detect_cycle_dfs with the visited test ahead of the on-path test.
detect_cycle_dfs_visited_first(r, current, st) ==
    IF current \in st.visited THEN st
    ELSE IF current \in st.path THEN [st EXCEPT !.err = TRUE]
    ELSE LET entered == [visited |-> st.visited \cup {current},
                         path |-> st.path \cup {current},
                         err |-> FALSE,
                         expanded |-> Append(st.expanded, current)]
             after == IF current \in DOMAIN r.dependencies
                      THEN DfsDeps(r, r.dependencies[current], 1, entered)
                      ELSE entered
         IN  IF after.err THEN after
             ELSE [after EXCEPT !.path = after.path \ {current}]

\* detect_cycle_dfs that leaves a node on the path when it returns from it.
detect_cycle_dfs_keeps_path(r, current, st) ==
    IF current \in st.path THEN [st EXCEPT !.err = TRUE]
    ELSE IF current \in st.visited THEN st
    ELSE LET entered == [visited |-> st.visited \cup {current},
                         path |-> st.path \cup {current},
                         err |-> FALSE,
                         expanded |-> Append(st.expanded, current)]
         IN  IF current \in DOMAIN r.dependencies
             THEN DfsDeps(r, r.dependencies[current], 1, entered)
             ELSE entered

\* detect_cycle_dfs without the visited test: a node is searched again each
\* time an edge leads to it.
detect_cycle_dfs_path_only(r, current, st) ==
    IF current \in st.path THEN [st EXCEPT !.err = TRUE]
    ELSE LET entered == [visited |-> st.visited \cup {current},
                         path |-> st.path \cup {current},
                         err |-> FALSE,
                         expanded |-> Append(st.expanded, current)]
             after == IF current \in DOMAIN r.dependencies
                      THEN DfsDeps(r, r.dependencies[current], 1, entered)
                      ELSE entered
         IN  IF after.err THEN after
             ELSE [after EXCEPT !.path = after.path \ {current}]

\* ComponentRegistry::detect_cycle_dfs.  st is the pair of mutable sets the
\* recursion shares, err whether an Err has been returned through `?`, and
\* expanded the nodes whose dependency loop has been entered.
detect_cycle_dfs(r, current, st) ==
    IF current \in st.path THEN [st EXCEPT !.err = TRUE]
    ELSE IF current \in st.visited THEN st
    ELSE LET entered == [visited |-> st.visited \cup {current},
                         path |-> st.path \cup {current},
                         err |-> FALSE,
                         expanded |-> Append(st.expanded, current)]
             after == IF current \in DOMAIN r.dependencies
                      THEN DfsDeps(r, r.dependencies[current], 1, entered)
                      ELSE entered
         IN  IF after.err THEN after
             ELSE [after EXCEPT !.path = after.path \ {current}]

\* The `for &dep in deps` loop of detect_cycle_dfs, from index i on.
DfsDeps(r, deps, i, st) ==
    IF i > Len(deps) THEN st
    ELSE LET s1 == detect_cycle_dfs(r, deps[i], st)
         IN  IF s1.err THEN s1 ELSE DfsDeps(r, deps, i + 1, s1)

\* The `for &type_id in self.dependencies.keys()` loop, from index i on.
RECURSIVE DetectLoop(_, _, _, _)
DetectLoop(r, keys, i, st) ==
    IF i > Len(keys) THEN st
    ELSE IF keys[i] \in st.visited THEN DetectLoop(r, keys, i + 1, st)
    ELSE LET s1 == detect_cycle_dfs(r, keys[i], st)
         IN  IF s1.err THEN s1 ELSE DetectLoop(r, keys, i + 1, s1)

\* The sets detect_circular_dependencies starts with; expanded lists the
\* nodes in the order the search inserts them into visited.
NewSearch == [visited |-> {}, path |-> {}, err |-> FALSE, expanded |-> <<>>]

\* ComponentRegistry::detect_circular_dependencies, the keys iterated as `keys`.
detect_circular_dependencies(r, keys) ==
    IF DetectLoop(r, keys, 1, NewSearch).err
    THEN "CircularDependency"
    ELSE "Ok"

----------------------------------------------------------------------------
\* The Arc allocations behind the singleton store.  `strong` maps every live
\* allocation to its strong count; an allocation is released when the count
\* reaches zero.

\* Arc::new: a fresh allocation with strong count 1 (the lowest free address).
ArcNew(strong) ==
    CHOOSE p \in 1..(Cardinality(DOMAIN strong) + 1) :
        /\ p \notin DOMAIN strong
        /\ \A q \in 1..(Cardinality(DOMAIN strong) + 1) :
              q \notin DOMAIN strong => p <= q

\* Arc::clone of an Arc pointing to p.
ArcClone(strong, p) ==
    IF p \in DOMAIN strong THEN [strong EXCEPT ![p] = @ + 1] ELSE strong

\* Dropping an Arc pointing to p: the last one releases the allocation.
ArcDrop(strong, p) ==
    IF p \notin DOMAIN strong THEN strong
    ELSE IF strong[p] = 1 THEN MapRemove(strong, p)
    ELSE [strong EXCEPT ![p] = @ - 1]

\* The Arcs of the singleton store as one value.
Arcs == [ptr |-> arc_ptr, strong |-> arc_strong]

\* The stored Arcs of the types in S are dropped (HashMap::remove, clear).
RECURSIVE DropStored(_, _)
DropStored(a, S) ==
    IF S = {} THEN a
    ELSE LET t == CHOOSE x \in S : TRUE
         IN  DropStored([ptr |-> MapRemove(a.ptr, t),
                         strong |-> ArcDrop(a.strong, a.ptr[t])],
                        S \ {t})

\* An Arc::new(component) is stored for each type in S (register_singleton).
RECURSIVE AllocStored(_, _)
AllocStored(a, S) ==
    IF S = {} THEN a
    ELSE LET t == CHOOSE x \in S : TRUE
             p == ArcNew(a.strong)
         IN  AllocStored([ptr |-> MapInsert(a.ptr, t, p),
                          strong |-> MapInsert(a.strong, p, 1)],
                         S \ {t})

\* The Arcs after a call that took the singleton store from r1 to r2.
StoreArcs(a, r1, r2) ==
    AllocStored(DropStored(a, DOMAIN r1.singletons \ DOMAIN r2.singletons),
                DOMAIN r2.singletons \ DOMAIN r1.singletons)

\* get_singleton handing out a copy of the stored instance in an Arc of its
\* own.
get_singleton_arc_copies(r, a, t) ==
    IF t \notin DOMAIN r.singletons
    THEN [ret |-> "None", strong |-> a.strong, handle |-> NoHandle]
    ELSE [ret |-> "Some",
          strong |-> MapInsert(a.strong, ArcNew(a.strong), 1),
          handle |-> [type_id |-> t, ptr |-> ArcNew(a.strong)]]

\* get_singleton rebuilding an Arc<T> from the stored pointer without cloning
\* the stored Arc first.
get_singleton_arc_borrows(r, a, t) ==
    IF t \notin DOMAIN r.singletons
    THEN [ret |-> "None", strong |-> a.strong, handle |-> NoHandle]
    ELSE [ret |-> "Some", strong |-> a.strong,
          handle |-> [type_id |-> t, ptr |-> a.ptr[t]]]

\* ComponentRegistry::get_singleton::<T> with its Arc: the stored Arc is
\* cloned and turned into a raw pointer; on a matching type the pointer
\* becomes the caller's Arc<T>, otherwise the clone is rebuilt and dropped.
get_singleton_arc(r, a, t) ==
    IF t \notin DOMAIN r.singletons
    THEN [ret |-> "None", strong |-> a.strong, handle |-> NoHandle]
    ELSE LET raw_ptr == a.ptr[t]
             cloned == ArcClone(a.strong, raw_ptr)
         IN  IF r.singletons[t].type_id = t
             THEN [ret |-> "Some", strong |-> cloned,
                   handle |-> [type_id |-> t, ptr |-> raw_ptr]]
             ELSE [ret |-> "None", strong |-> ArcDrop(cloned, raw_ptr),
                   handle |-> NoHandle]

----------------------------------------------------------------------------
\* DependencyInjector (injection.rs)

\* The injector as one value.
Injector ==
    [registry |-> Registry,
     initialization_order |-> initialization_order,
     order_calculated |-> order_calculated]

\* DependencyInjector::new
NewInjector ==
    [registry |-> NewRegistry,
     initialization_order |-> <<>>,
     order_calculated |-> FALSE]

\* registry_mut that hands out the registry without marking the order stale.
registry_mut_keeps_flag(inj) == inj

\* DependencyInjector::registry_mut: the flag is reset before the caller
\* gets the registry, whatever the caller then does with it.
registry_mut(inj) == [inj EXCEPT !.order_calculated = FALSE]

\* The in-degree table counting each declared pair once, however often it
\* is declared.
InDegree_counts_distinct_edges(r) ==
    LET all_types == DOMAIN r.metadata
    IN  [t \in all_types |->
            Cardinality({x \in all_types :
                            \E i \in 1..Len(get_dependencies(r, x)) :
                                get_dependencies(r, x)[i] = t})]

\* The in-degree table counting the edges every dependent of the edge table
\* declares, the unregistered dependents included.
InDegree_counts_unregistered_dependents(r) ==
    LET all_types == DOMAIN r.metadata
        edges == UNION {{<<x, i>> : i \in 1..Len(get_dependencies(r, x))} :
                           x \in DOMAIN r.dependencies}
    IN  [t \in all_types |->
            Cardinality({e \in edges : get_dependencies(r, e[1])[e[2]] = t})]

\* The in-degree table leaving out the edges a type declares on itself.
InDegree_skips_self_edges(r) ==
    LET all_types == DOMAIN r.metadata
        edges == UNION {{<<x, i>> : i \in 1..Len(get_dependencies(r, x))} :
                           x \in all_types}
    IN  [t \in all_types |->
            Cardinality({e \in edges :
                            /\ get_dependencies(r, e[1])[e[2]] = t
                            /\ e[1] # t})]

\* The in-degree table of calculate_initialization_order: one entry per
\* metadata record, counting the edges of registered types that point to it.
InDegree(r) ==
    LET all_types == DOMAIN r.metadata
        edges == UNION {{<<x, i>> : i \in 1..Len(get_dependencies(r, x))} :
                           x \in all_types}
    IN  [t \in all_types |->
            Cardinality({e \in edges : get_dependencies(r, e[1])[e[2]] = t})]

\* The `for dep_type in get_dependencies(&current)` loop of the sort, from
\* index i on: ks is [queue, result, in_degree, underflow].
RECURSIVE SortDeps(_, _, _)
SortDeps(deps, i, ks) ==
    IF i > Len(deps) \/ ks.underflow THEN ks
    ELSE LET d == deps[i]
         IN  IF d \notin DOMAIN ks.in_degree THEN SortDeps(deps, i + 1, ks)
             ELSE IF ks.in_degree[d] = 0
                  THEN [ks EXCEPT !.underflow = TRUE]
                  ELSE LET deg == ks.in_degree[d] - 1
                           ks1 == [ks EXCEPT
                                     !.in_degree = [ks.in_degree EXCEPT ![d] = deg],
                                     !.queue = IF deg = 0 THEN Append(ks.queue, d)
                                               ELSE ks.queue]
                       IN  SortDeps(deps, i + 1, ks1)

\* The `while let Some(current) = queue.pop_front()` loop of the sort.
RECURSIVE SortLoop(_, _)
SortLoop(r, ks) ==
    IF ks.queue = <<>> \/ ks.underflow THEN ks
    ELSE LET current == Head(ks.queue)
             popped == [ks EXCEPT !.queue = Tail(ks.queue),
                                  !.result = Append(ks.result, current)]
         IN  SortLoop(r, SortDeps(get_dependencies(r, current), 1, popped))

\* The sort of calculate_initialization_order, in_degree iterated as `ord`.
TopologicalSort(r, ord) ==
    LET in_degree == InDegree(r)
        seeded == SelectSeq(ord, LAMBDA t : in_degree[t] = 0)
    IN  SortLoop(r, [queue |-> seeded, result |-> <<>>,
                     in_degree |-> in_degree, underflow |-> FALSE])

\* calculate_initialization_order marking the order as calculated before the
\* result's length is compared with the number of registered types.
calculate_initialization_order_marks_early(inj, ord) ==
    IF inj.order_calculated THEN [inj |-> inj, ret |-> "Ok"]
    ELSE LET ks == TopologicalSort(inj.registry, ord)
             marked == [inj EXCEPT !.order_calculated = TRUE]
         IN  IF Len(ks.result) # Cardinality(DOMAIN inj.registry.metadata)
             THEN [inj |-> marked, ret |-> "TopologicalSortFailed"]
             ELSE [inj |-> [marked EXCEPT !.initialization_order = ks.result],
                   ret |-> "Ok"]

\* calculate_initialization_order without the comparison of the result's
\* length with the number of registered types.
calculate_initialization_order_unchecked(inj, ord) ==
    IF inj.order_calculated THEN [inj |-> inj, ret |-> "Ok"]
    ELSE LET ks == TopologicalSort(inj.registry, ord)
         IN  [inj |-> [inj EXCEPT !.initialization_order = ks.result,
                                  !.order_calculated = TRUE],
              ret |-> "Ok"]

\* calculate_initialization_order whose sort consumes the edges it follows, as
\* a Kahn sort that removes edges from the graph does.
calculate_initialization_order_consumes_edges(inj, ord) ==
    IF inj.order_calculated THEN [inj |-> inj, ret |-> "Ok"]
    ELSE LET ks == TopologicalSort(inj.registry, ord)
         IN  IF ks.underflow THEN [inj |-> inj, ret |-> "Panic"]
             ELSE IF Len(ks.result) # Cardinality(DOMAIN inj.registry.metadata)
             THEN [inj |-> inj, ret |-> "TopologicalSortFailed"]
             ELSE [inj |-> [registry |->
                               [inj.registry EXCEPT !.dependencies = EmptyMap],
                            initialization_order |-> ks.result,
                            order_calculated |-> TRUE],
                   ret |-> "Ok"]

\* calculate_initialization_order that sorts again on every call, ignoring
\* order_calculated.
calculate_initialization_order_always_sorts(inj, ord) ==
    LET ks == TopologicalSort(inj.registry, ord)
    IN  IF ks.underflow THEN [inj |-> inj, ret |-> "Panic"]
        ELSE IF Len(ks.result) # Cardinality(DOMAIN inj.registry.metadata)
        THEN [inj |-> inj, ret |-> "TopologicalSortFailed"]
        ELSE [inj |-> [inj EXCEPT !.initialization_order = ks.result,
                                  !.order_calculated = TRUE],
              ret |-> "Ok"]

\* calculate_initialization_order keeping whatever the sort has emitted, the
\* registered types it could not reach left out.
calculate_initialization_order_keeps_partial(inj, ord) ==
    IF inj.order_calculated THEN [inj |-> inj, ret |-> "Ok"]
    ELSE LET ks == TopologicalSort(inj.registry, ord)
         IN  IF ks.underflow THEN [inj |-> inj, ret |-> "Panic"]
             ELSE IF ks.result = <<>> /\ DOMAIN inj.registry.metadata # {}
             THEN [inj |-> inj, ret |-> "TopologicalSortFailed"]
             ELSE [inj |-> [inj EXCEPT !.initialization_order = ks.result,
                                       !.order_calculated = TRUE],
                   ret |-> "Ok"]

\* DependencyInjector::calculate_initialization_order
calculate_initialization_order(inj, ord) ==
    IF inj.order_calculated THEN [inj |-> inj, ret |-> "Ok"]
    ELSE LET ks == TopologicalSort(inj.registry, ord)
         IN  IF ks.underflow THEN [inj |-> inj, ret |-> "Panic"]
             ELSE IF Len(ks.result) # Cardinality(DOMAIN inj.registry.metadata)
             THEN [inj |-> inj, ret |-> "TopologicalSortFailed"]
             ELSE [inj |-> [inj EXCEPT !.initialization_order = ks.result,
                                       !.order_calculated = TRUE],
                   ret |-> "Ok"]

RECURSIVE MissingDep(_, _, _)

\* The dependency check looking at the first declared dependency only.
MissingDep_first_only(r, deps, i) ==
    IF i > Len(deps) THEN "None"
    ELSE IF ~contains_type_id(r, deps[i]) THEN deps[i]
    ELSE "None"

\* The dependency check of one component: the first dependency not stored.
MissingDep(r, deps, i) ==
    IF i > Len(deps) THEN "None"
    ELSE IF ~contains_type_id(r, deps[i]) THEN deps[i]
    ELSE MissingDep(r, deps, i + 1)

\* DependencyInjector::inject_dependencies, from index i of the order on.
RECURSIVE InjectLoop(_, _, _)
InjectLoop(r, order, i) ==
    IF i > Len(order) THEN [ret |-> "Ok", name |-> "None"]
    ELSE IF order[i] \in DOMAIN r.metadata
            /\ MissingDep(r, get_dependencies(r, order[i]), 1) # "None"
         THEN [ret |-> "DependencyNotFound", name |-> r.metadata[order[i]].name]
         ELSE InjectLoop(r, order, i + 1)

\* DependencyInjector::inject_dependencies
inject_dependencies(inj) ==
    InjectLoop(inj.registry, inj.initialization_order, 1)

\* DependencyInjector::auto_wire: keys is the iteration order of the edge
\* table, ord that of the in-degree table.
auto_wire(inj, keys, ord) ==
    IF detect_circular_dependencies(inj.registry, keys) # "Ok"
    THEN [inj |-> inj, ret |-> "CircularDependency", name |-> "None"]
    ELSE LET c == calculate_initialization_order(inj, ord)
         IN  IF c.ret # "Ok" THEN [inj |-> c.inj, ret |-> c.ret, name |-> "None"]
             ELSE LET i == inject_dependencies(c.inj)
                  IN  [inj |-> c.inj, ret |-> i.ret, name |-> i.name]

\* DependencyInjector::get_initialization_order
get_initialization_order(inj, ord) ==
    IF ~inj.order_calculated
    THEN LET c == calculate_initialization_order(inj, ord)
         IN  IF c.ret # "Ok" THEN [inj |-> c.inj, ret |-> c.ret, order |-> <<>>]
             ELSE [inj |-> c.inj, ret |-> "Ok", order |-> c.inj.initialization_order]
    ELSE [inj |-> inj, ret |-> "Ok", order |-> inj.initialization_order]

\* The `for dep_type_id in dependencies` loop of the two register*_with_dependencies.
RECURSIVE AddDeps(_, _, _, _)
AddDeps(r, t, deps, i) ==
    IF i > Len(deps) THEN r
    ELSE AddDeps(add_dependency(r, t, deps[i]), t, deps, i + 1)

\* register_with_dependencies without the reset of order_calculated.
register_with_dependencies_no_reset(inj, t, name, deps) ==
    LET reg == register(inj.registry, t, name)
    IN  IF reg.ret # "Ok" THEN [inj |-> inj, ret |-> reg.ret]
        ELSE [inj |-> [inj EXCEPT !.registry = AddDeps(reg.reg, t, deps, 1)],
              ret |-> "Ok"]

\* register_with_dependencies that refuses a dependency list naming an
\* unregistered type.
register_with_dependencies_checks_deps(inj, t, name, deps) ==
    LET reg == register(inj.registry, t, name)
    IN  IF reg.ret # "Ok" THEN [inj |-> inj, ret |-> reg.ret]
        ELSE IF MissingDep(reg.reg, deps, 1) # "None"
        THEN [inj |-> inj, ret |-> "DependencyNotFound"]
        ELSE [inj |-> [inj EXCEPT !.registry = AddDeps(reg.reg, t, deps, 1),
                                  !.order_calculated = FALSE],
              ret |-> "Ok"]

\* DependencyInjector::register_with_dependencies
register_with_dependencies(inj, t, name, deps) ==
    LET reg == register(inj.registry, t, name)
    IN  IF reg.ret # "Ok" THEN [inj |-> inj, ret |-> reg.ret]
        ELSE [inj |-> [inj EXCEPT !.registry = AddDeps(reg.reg, t, deps, 1),
                                  !.order_calculated = FALSE],
              ret |-> "Ok"]

\* DependencyInjector::register_singleton_with_dependencies
register_singleton_with_dependencies(inj, t, name, deps) ==
    LET reg == register_singleton(inj.registry, t, name)
    IN  IF reg.ret # "Ok" THEN [inj |-> inj, ret |-> reg.ret]
        ELSE [inj |-> [inj EXCEPT !.registry = AddDeps(reg.reg, t, deps, 1),
                                  !.order_calculated = FALSE],
              ret |-> "Ok"]

\* DependencyInjector::validate_dependencies from index i of the metadata
\* iteration on.
RECURSIVE ValidateLoop(_, _, _)
ValidateLoop(r, ord, i) ==
    IF i > Len(ord) THEN [ret |-> "Ok", name |-> "None"]
    ELSE IF MissingDep(r, get_dependencies(r, ord[i]), 1) # "None"
         THEN [ret |-> "DependencyNotFound", name |-> r.metadata[ord[i]].name]
         ELSE ValidateLoop(r, ord, i + 1)

\* DependencyInjector::validate_dependencies, metadata iterated as `ord`.
validate_dependencies(inj, ord) == ValidateLoop(inj.registry, ord, 1)

\* DependencyInjector::get_injection_stats
get_injection_stats(inj) ==
    [total_components |-> stats(inj.registry).total_components,
     singleton_components |-> stats(inj.registry).singleton_components,
     prototype_components |-> stats(inj.registry).prototype_components,
     total_dependencies |->
        SumLen([t \in DOMAIN inj.registry.metadata |->
                   get_dependencies(inj.registry, t)],
               DOMAIN inj.registry.metadata),
     initialization_order_calculated |-> inj.order_calculated]

\* Container::stats
Container_stats(inj) ==
    [total_components |-> get_injection_stats(inj).total_components,
     singleton_components |-> get_injection_stats(inj).singleton_components,
     prototype_components |-> get_injection_stats(inj).prototype_components,
     total_dependencies |-> get_injection_stats(inj).total_dependencies,
     auto_wired |-> get_injection_stats(inj).initialization_order_calculated]

\* Container::register
Container_register(inj, t) ==
    LET m == registry_mut(inj)
        res == register(m.registry, t, "None")
    IN  [inj |-> [m EXCEPT !.registry = res.reg], ret |-> res.ret]

\* Container::register_named passing None for the name.
Container_register_named_drops_name(inj, t, name) ==
    LET m == registry_mut(inj)
        res == register(m.registry, t, "None")
    IN  [inj |-> [m EXCEPT !.registry = res.reg], ret |-> res.ret]

\* Container::register_named
Container_register_named(inj, t, name) ==
    LET m == registry_mut(inj)
        res == register(m.registry, t, name)
    IN  [inj |-> [m EXCEPT !.registry = res.reg], ret |-> res.ret]

\* Container::register_singleton
Container_register_singleton(inj, t) ==
    LET m == registry_mut(inj)
        res == register_singleton(m.registry, t, "None")
    IN  [inj |-> [m EXCEPT !.registry = res.reg], ret |-> res.ret]

\* Container::register_singleton_named
Container_register_singleton_named(inj, t, name) ==
    LET m == registry_mut(inj)
        res == register_singleton(m.registry, t, name)
    IN  [inj |-> [m EXCEPT !.registry = res.reg], ret |-> res.ret]

\* ApplicationContext::register: Container::register under the write lock,
\* an error logged and dropped.
ApplicationContext_register(inj, t) ==
    LET res == Container_register(inj, t)
    IN  [inj |-> res.inj, rejected |-> res.ret # "Ok"]

\* ApplicationContext::register_singleton: Container::register_singleton
\* under the write lock, an error logged and dropped.
ApplicationContext_register_singleton(inj, t) ==
    LET res == Container_register_singleton(inj, t)
    IN  [inj |-> res.inj, rejected |-> res.ret # "Ok"]

\* ApplicationContext::get: Container::get_singleton under the read lock.
ApplicationContext_get(inj, t) == get_singleton(inj.registry, t)

\* ApplicationContext::auto_wire: Container::auto_wire under the write lock.
ApplicationContext_auto_wire(inj, keys, ord) == auto_wire(inj, keys, ord)

\* The variant of crate::Error a result carries.
ErrorVariant(ret) ==
    CASE ret = "DuplicateRegistration" -> "Container"
      [] ret \in {"CircularDependency", "TopologicalSortFailed",
                  "DependencyNotFound"} -> "DependencyInjection"
      [] OTHER -> "None"

----------------------------------------------------------------------------
\* The calls a caller makes on one injector.  Every call records what it
\* returned in `last`.

Install(inj) ==
    /\ components' = inj.registry.components
    /\ singletons' = inj.registry.singletons
    /\ metadata' = inj.registry.metadata
    /\ dependencies' = inj.registry.dependencies
    /\ initialization_order' = inj.initialization_order
    /\ order_calculated' = inj.order_calculated
    /\ arc_ptr' = StoreArcs(Arcs, Registry, inj.registry).ptr
    /\ arc_strong' = StoreArcs(Arcs, Registry, inj.registry).strong
    /\ UNCHANGED handles

Returned(op, arg, ret) == last' = [op |-> op, arg |-> arg, ret |-> ret]

Init ==
    /\ components = NewInjector.registry.components
    /\ singletons = NewInjector.registry.singletons
    /\ metadata = NewInjector.registry.metadata
    /\ dependencies = NewInjector.registry.dependencies
    /\ initialization_order = NewInjector.initialization_order
    /\ order_calculated = NewInjector.order_calculated
    /\ last = [op |-> "new", arg |-> "None", ret |-> "Ok"]
    /\ arc_ptr = EmptyMap
    /\ arc_strong = EmptyMap
    /\ handles = [h \in Holders |-> NoHandle]

\* injector.registry_mut().register::<t>(component, name), as Container::register does
Register(t, name) ==
    LET m == registry_mut(Injector)
        res == register(m.registry, t, name)
    IN  /\ Install([m EXCEPT !.registry = res.reg])
        /\ Returned("register", t, res.ret)

\* injector.registry_mut().register_singleton::<t>(component, name)
RegisterSingleton(t, name) ==
    LET m == registry_mut(Injector)
        res == register_singleton(m.registry, t, name)
    IN  /\ Install([m EXCEPT !.registry = res.reg])
        /\ Returned("register_singleton", t, res.ret)

\* injector.registry_mut().add_dependency(x, y)
AddDependency(x, y) ==
    /\ EdgeCount(dependencies) < MaxEdges
    /\ LET m == registry_mut(Injector)
       IN  /\ Install([m EXCEPT !.registry = add_dependency(m.registry, x, y)])
           /\ Returned("add_dependency", x, "Ok")

\* injector.registry_mut().remove::<t>()
Remove(t) ==
    LET m == registry_mut(Injector)
        res == remove(m.registry, t)
    IN  /\ Install([m EXCEPT !.registry = res.reg])
        /\ Returned("remove", t, res.ret)

\* injector.registry_mut().clear()
Clear ==
    LET m == registry_mut(Injector)
    IN  /\ Install([m EXCEPT !.registry = clear(m.registry)])
        /\ Returned("clear", "None", "Ok")

\* injector.register_with_dependencies::<t>(component, name, deps)
RegisterWithDependencies(t, name, deps) ==
    /\ EdgeCount(dependencies) + Len(deps) <= MaxEdges
    /\ LET res == register_with_dependencies(Injector, t, name, deps)
       IN  /\ Install(res.inj)
           /\ Returned("register_with_dependencies", t, res.ret)

\* injector.register_singleton_with_dependencies::<t>(component, name, deps)
RegisterSingletonWithDependencies(t, name, deps) ==
    /\ EdgeCount(dependencies) + Len(deps) <= MaxEdges
    /\ LET res == register_singleton_with_dependencies(Injector, t, name, deps)
       IN  /\ Install(res.inj)
           /\ Returned("register_singleton_with_dependencies", t, res.ret)

\* injector.auto_wire()
AutoWire ==
    \E keys \in Orders(DOMAIN dependencies), ord \in Orders(DOMAIN metadata) :
        LET res == auto_wire(Injector, keys, ord)
        IN  /\ Install(res.inj)
            /\ Returned("auto_wire", "None", res.ret)

\* injector.get_initialization_order()
GetInitializationOrder ==
    \E ord \in Orders(DOMAIN metadata) :
        LET res == get_initialization_order(Injector, ord)
        IN  /\ Install(res.inj)
            /\ Returned("get_initialization_order", "None", res.ret)

Next ==
    \/ \E t \in Types, name \in NameArgs : Register(t, name)
    \/ \E t \in Types, name \in NameArgs : RegisterSingleton(t, name)
    \/ \E x \in Types, y \in Types : AddDependency(x, y)
    \/ \E t \in Types : Remove(t)
    \/ Clear
    \/ \E t \in Types, name \in NameArgs, deps \in SeqsUpTo(MaxDepsArg) :
          RegisterWithDependencies(t, name, deps)
    \/ \E t \in Types, name \in NameArgs, deps \in SeqsUpTo(MaxDepsArg) :
          RegisterSingletonWithDependencies(t, name, deps)
    \/ AutoWire
    \/ GetInitializationOrder

Spec == Init /\ [][Next]_vars

----------------------------------------------------------------------------
\* The graph algorithms on their own: the injector wraps any registry that
\* registrations and add_dependency calls build, and is then only wired.

\* The registrations of a build: lc[t] says how t is registered, if at all.
RECURSIVE RegisterAll(_, _, _)
RegisterAll(r, lc, S) ==
    IF S = {} THEN r
    ELSE LET t == CHOOSE x \in S : TRUE
             r1 == CASE lc[t] = "Prototype" -> register(r, t, "None").reg
                     [] lc[t] = "Singleton" -> register_singleton(r, t, "None").reg
                     [] OTHER -> r
         IN  RegisterAll(r1, lc, S \ {t})

\* The add_dependency calls of a build, from index i of the edge list on.
RECURSIVE AddEdges(_, _, _)
AddEdges(r, es, i) ==
    IF i > Len(es) THEN r
    ELSE AddEdges(add_dependency(r, es[i][1], es[i][2]), es, i + 1)

GraphInit ==
    \E lc \in [GraphTypes -> {"Absent", "Prototype", "Singleton"}],
       es \in UNION {[1..k -> GraphTypes \X GraphTypes] : k \in 0..MaxGraphEdges} :
        LET r == AddEdges(RegisterAll(NewRegistry, lc, GraphTypes), es, 1)
        IN  /\ components = r.components
            /\ singletons = r.singletons
            /\ metadata = r.metadata
            /\ dependencies = r.dependencies
            /\ initialization_order = <<>>
            /\ order_calculated = FALSE
            /\ last = [op |-> "with_registry", arg |-> "None", ret |-> "Ok"]
            /\ arc_ptr = StoreArcs([ptr |-> EmptyMap, strong |-> EmptyMap],
                                   NewRegistry, r).ptr
            /\ arc_strong = StoreArcs([ptr |-> EmptyMap, strong |-> EmptyMap],
                                      NewRegistry, r).strong
            /\ handles = [h \in Holders |-> NoHandle]

GraphNext == AutoWire \/ GetInitializationOrder

SpecGraph == GraphInit /\ [][GraphNext]_vars

----------------------------------------------------------------------------
\* The holders of singleton handles next to the registry: registrations,
\* removals and clear() on one side, get_singleton and the drop of a handle
\* on the other.

\* Holder h calls injector.get_singleton::<t>() and keeps what it gets.
GetSingleton(h, t) ==
    /\ handles[h] = NoHandle
    /\ LET res == get_singleton_arc(Registry, Arcs, t)
       IN  /\ arc_strong' = res.strong
           /\ handles' = [handles EXCEPT ![h] = res.handle]
           /\ Returned("get_singleton", t, res.ret)
    /\ UNCHANGED <<components, singletons, metadata, dependencies,
                   initialization_order, order_calculated, arc_ptr>>

\* Holder h drops its Arc<T>.
DropHandle(h) ==
    /\ handles[h] # NoHandle
    /\ arc_strong' = ArcDrop(arc_strong, handles[h].ptr)
    /\ handles' = [handles EXCEPT ![h] = NoHandle]
    /\ Returned("drop", handles[h].type_id, "Ok")
    /\ UNCHANGED <<components, singletons, metadata, dependencies,
                   initialization_order, order_calculated, arc_ptr>>

HandlesNext ==
    \/ \E t \in Types, name \in NameArgs : Register(t, name)
    \/ \E t \in Types, name \in NameArgs : RegisterSingleton(t, name)
    \/ \E t \in Types : Remove(t)
    \/ Clear
    \/ \E h \in Holders, t \in Types : GetSingleton(h, t)
    \/ \E h \in Holders : DropHandle(h)

SpecHandles == Init /\ [][HandlesNext]_vars

----------------------------------------------------------------------------
\* The cycle check on its own: add_dependency calls build an edge table
\* over four type identities, on which detect_circular_dependencies is
\* called.

\* injector.registry_mut().add_dependency(x, y)
DeclareEdge(x, y) ==
    /\ EdgeCount(dependencies) < MaxDetectEdges
    /\ LET m == registry_mut(Injector)
       IN  /\ Install([m EXCEPT !.registry = add_dependency(m.registry, x, y)])
           /\ Returned("add_dependency", x, "Ok")

\* injector.registry().detect_circular_dependencies()
DetectCircularDependencies ==
    /\ \E keys \in Orders(DOMAIN dependencies) :
          Returned("detect_circular_dependencies", "None",
                   detect_circular_dependencies(Registry, keys))
    /\ UNCHANGED <<components, singletons, metadata, dependencies,
                   initialization_order, order_calculated,
                   arc_ptr, arc_strong, handles>>

DetectNext ==
    \/ \E x \in DetectTypes, y \in DetectTypes : DeclareEdge(x, y)
    \/ DetectCircularDependencies

SpecDetect == Init /\ [][DetectNext]_vars

----------------------------------------------------------------------------
\* The dependency graph, defined from the edge table alone.

\* The edges dependent -> dependency of an edge table.
Edges(deps) == UNION {{<<x, deps[x][i]>> : i \in 1..Len(deps[x])} : x \in DOMAIN deps}

Successors(E, S) == {e[2] : e \in {f \in E : f[1] \in S}}

RECURSIVE Closure(_, _)
Closure(E, S) ==
    LET S2 == S \cup Successors(E, S)
    IN  IF S2 = S THEN S ELSE Closure(E, S2)

\* y is reachable from x along at least one edge.
Reaches(E, x, y) == y \in Closure(E, Successors(E, {x}))

Nodes(E) == {e[1] : e \in E} \cup {e[2] : e \in E}

\* A directed cycle, a self-edge included.
HasCycle(E) == \E x \in Nodes(E) : Reaches(E, x, x)

\* A directed cycle through at least two types.
HasCycleOfTwo(E) ==
    \E x \in Nodes(E), y \in Nodes(E) : x # y /\ Reaches(E, x, y) /\ Reaches(E, y, x)

\* The position of t in a sequence without repetitions (0 if absent).
Position(s, t) == IF t \in Range(s) THEN CHOOSE i \in 1..Len(s) : s[i] = t ELSE 0

Registered == DOMAIN components \cup DOMAIN singletons

OrderCalls == {"auto_wire", "get_initialization_order"}

RegisterCalls == {"register", "register_singleton",
                  "register_with_dependencies",
                  "register_singleton_with_dependencies"}


----------------------------------------------------------------------------
\* C1: when the edge table is acyclic and the order computation (auto_wire or
\* get_initialization_order) succeeds, every registered dependency stands
\* before every registered component that declares it: for an edge X -> Y
\* with both registered, the position of Y is smaller than that of X.
C1_DependenciesBeforeDependents ==
    (/\ last.op \in OrderCalls
     /\ last.ret = "Ok"
     /\ ~HasCycle(Edges(dependencies)))
    => \A e \in Edges(dependencies) :
          (e[1] \in Registered /\ e[2] \in Registered)
          => Position(initialization_order, e[2])
                < Position(initialization_order, e[1])

\* C2: once the order computation has succeeded, the order holds every
\* registered type identity exactly once and nothing else.
C2_OrderIsPermutationOfRegistered ==
    order_calculated
    => /\ Len(initialization_order) = Cardinality(DOMAIN metadata)
       /\ Range(initialization_order) = DOMAIN metadata
       /\ Range(initialization_order) = Registered
       /\ \A i \in 1..Len(initialization_order), j \in 1..Len(initialization_order) :
             initialization_order[i] = initialization_order[j] => i = j

\* An order over several components was computed while the edge table
\* mentions a type that is not registered.
C2_Witness ==
    /\ order_calculated
    /\ last.op \in OrderCalls
    /\ Len(initialization_order) >= 2
    /\ \E e \in Edges(dependencies) : e[1] \in Registered /\ e[2] \notin Registered

\* C3: a register or register_singleton call, direct or through
\* register*_with_dependencies, for a type already in either store returns
\* the duplicate-registration error and changes neither store, nor the
\* metadata, nor the edge table.
C3_DuplicateRegistrationFails ==
    [][(last'.op \in RegisterCalls /\ contains(Registry, last'.arg))
       => /\ last'.ret = "DuplicateRegistration"
          /\ ErrorVariant(last'.ret) = "Container"
          /\ components' = components
          /\ singletons' = singletons
          /\ metadata' = metadata
          /\ dependencies' = dependencies]_vars

\* A singleton registration with dependencies was refused for a type that
\* is registered as a named prototype.
C3_Witness ==
    /\ last.op = "register_singleton_with_dependencies"
    /\ last.ret = "DuplicateRegistration"
    /\ last.arg \in DOMAIN components
    /\ metadata[last.arg].name = "svc"
    /\ metadata[last.arg].lifecycle = "Prototype"
    /\ last.arg \in DOMAIN dependencies

\* C4: when the edge table has a directed cycle through at least two types,
\* registered or not, detect_circular_dependencies returns the
\* circular-dependency error and so does auto_wire, for every iteration
\* order of the tables.
C4_CycleDetected ==
    HasCycleOfTwo(Edges(dependencies))
    => /\ \A keys \in Orders(DOMAIN dependencies) :
             detect_circular_dependencies(Registry, keys) = "CircularDependency"
       /\ \A keys \in Orders(DOMAIN dependencies), ord \in Orders(DOMAIN metadata) :
             /\ auto_wire(Injector, keys, ord).ret = "CircularDependency"
             /\ ErrorVariant(auto_wire(Injector, keys, ord).ret) = "DependencyInjection"
       /\ last.op = "auto_wire" => last.ret = "CircularDependency"

\* auto_wire has failed on a cycle of three types of which one is not
\* registered.
C4_Witness ==
    /\ last.op = "auto_wire"
    /\ last.ret = "CircularDependency"
    /\ HasCycleOfTwo(Edges(dependencies))
    /\ ~HasCycle({e \in Edges(dependencies) : e[1] \in Registered /\ e[2] \in Registered})
    /\ \E x \in GraphTypes : x \in DOMAIN dependencies /\ x \notin Registered
    /\ Cardinality(DOMAIN dependencies) = 3

\* C5 (as claimed): whenever auto_wire or get_initialization_order returns an
\* error, order_calculated is false afterwards.
C5_ErrorLeavesDirty ==
    (last.op \in OrderCalls /\ last.ret # "Ok") => ~order_calculated

\* C5 (amended): an error of get_initialization_order leaves order_calculated
\* false; auto_wire never fails in the order computation; an auto_wire that
\* fails the cycle check leaves order_calculated as it was, and one that
\* fails the dependency presence pass leaves it true.
C5_ErrorAndOrderFlag ==
    [][/\ (last'.op = "get_initialization_order" /\ last'.ret # "Ok")
          => (~order_calculated' /\ ~order_calculated)
       /\ last'.op = "auto_wire"
          => last'.ret \in {"Ok", "CircularDependency", "DependencyNotFound"}
       /\ (last'.op = "auto_wire" /\ last'.ret = "CircularDependency")
          => order_calculated' = order_calculated
       /\ (last'.op = "auto_wire" /\ last'.ret = "DependencyNotFound")
          => order_calculated']_vars

\* get_initialization_order has failed on a cycle among registered types
\* after an order had been cached earlier.
C5_Witness ==
    /\ last.op = "get_initialization_order"
    /\ last.ret = "TopologicalSortFailed"
    /\ ~order_calculated
    /\ initialization_order # <<>>
    /\ HasCycleOfTwo(Edges(dependencies))

\* C6 (as claimed): validate_dependencies fails exactly when some edge of the
\* edge table, whoever declares it, points to a type in neither store, and
\* auto_wire succeeds on an acyclic table only if every edge resolves.
C6_AllEdgesValidated ==
    LET dangling == \E e \in Edges(dependencies) : e[2] \notin Registered
    IN  /\ \A ord \in Orders(DOMAIN metadata) :
              validate_dependencies(Injector, ord).ret = "DependencyNotFound"
              <=> dangling
        /\ \A keys \in Orders(DOMAIN dependencies), ord \in Orders(DOMAIN metadata) :
              (~HasCycle(Edges(dependencies))
               /\ auto_wire(Injector, keys, ord).ret = "Ok") => ~dangling

\* C6 (amended): validate_dependencies fails exactly when some edge declared
\* by a registered type points to a type in neither store, and auto_wire
\* succeeds on an acyclic table exactly when every such edge resolves; the
\* edges of unregistered dependents are not looked at.
C6_RegisteredEdgesValidated ==
    LET dangling == \E e \in Edges(dependencies) :
                        e[1] \in Registered /\ e[2] \notin Registered
    IN  /\ \A ord \in Orders(DOMAIN metadata) :
              /\ validate_dependencies(Injector, ord).ret
                    = IF dangling THEN "DependencyNotFound" ELSE "Ok"
              /\ ErrorVariant(validate_dependencies(Injector, ord).ret)
                    = IF dangling THEN "DependencyInjection" ELSE "None"
        /\ \A keys \in Orders(DOMAIN dependencies), ord \in Orders(DOMAIN metadata) :
              ~HasCycle(Edges(dependencies))
              => (auto_wire(Injector, keys, ord).ret = "Ok" <=> ~dangling)
        /\ (last.op = "auto_wire" /\ last.ret = "Ok") => ~dangling

\* auto_wire has succeeded on a registry with a component although an
\* unregistered dependent declares a dependency that is not registered.
C6_Witness ==
    /\ last.op = "auto_wire"
    /\ last.ret = "Ok"
    /\ initialization_order # <<>>
    /\ \E e \in Edges(dependencies) : e[1] \notin Registered /\ e[2] \notin Registered

\* C7: when remove::<Y>() directly follows a successful auto_wire and a
\* component that stays registered declares Y, validate_dependencies and
\* auto_wire both fail afterwards with the missing-dependency error.
C7_RemovedDependencySurfaces ==
    [][(/\ last.op = "auto_wire"
        /\ last.ret = "Ok"
        /\ last'.op = "remove"
        /\ last'.ret = TRUE
        /\ \E x \in Types :
              /\ contains(Registry', x)
              /\ last'.arg \in Range(get_dependencies(Registry, x)))
       => /\ \A ord \in Orders(DOMAIN metadata') :
                /\ validate_dependencies(Injector', ord).ret = "DependencyNotFound"
                /\ ErrorVariant(validate_dependencies(Injector', ord).ret)
                      = "DependencyInjection"
          /\ \A keys \in Orders(DOMAIN dependencies'), ord \in Orders(DOMAIN metadata') :
                /\ auto_wire(Injector', keys, ord).ret = "DependencyNotFound"
                /\ ErrorVariant(auto_wire(Injector', keys, ord).ret)
                      = "DependencyInjection"]_vars

\* A dependency that the cached order still lists has been removed while its
\* dependent stays registered.
C7_Witness ==
    /\ last.op = "remove"
    /\ last.ret = TRUE
    /\ last.arg \in Range(initialization_order)
    /\ \E x \in Registered :
          /\ x \in Range(initialization_order)
          /\ last.arg \in Range(get_dependencies(Registry, x))

\* C8 (as claimed): after remove::<T>() has returned, whatever it returned, T
\* is in neither store, has no edges and no metadata, and a second
\* remove::<T>() returns false.
C8_RemoveLeavesNothing ==
    last.op = "remove"
    => /\ ~contains(Registry, last.arg)
       /\ get_dependencies(Registry, last.arg) = <<>>
       /\ ~get_metadata(Registry, last.arg).some
       /\ remove(Registry, last.arg).ret = FALSE

\* C8 (amended): after remove::<T>() has returned, T is in neither store, has
\* no metadata, and a second remove::<T>() returns false; T has no edges if
\* the call returned true, and if it returned false (T was not registered)
\* the edge table is as before the call, the edges declared for T included.
C8_RemoveConsistency ==
    [][last'.op = "remove"
       => /\ ~contains(Registry', last'.arg)
          /\ ~get_metadata(Registry', last'.arg).some
          /\ remove(Registry', last'.arg).ret = FALSE
          /\ last'.ret = contains(Registry, last'.arg)
          /\ last'.ret = TRUE => get_dependencies(Registry', last'.arg) = <<>>
          /\ last'.ret = FALSE => dependencies' = dependencies]_vars

\* remove::<T>() has returned false for a type that was never registered
\* and whose declared edges are still in the edge table.
C8_Witness ==
    /\ last.op = "remove"
    /\ last.ret = FALSE
    /\ get_dependencies(Registry, last.arg) # <<>>
    /\ ~contains(Registry, last.arg)

\* C9: a type registered as a prototype is returned by get and not by
\* get_singleton, a type registered as a singleton by get_singleton and not
\* by get, and contains is true for both.
C9_LifecycleIsolation ==
    /\ \A t \in Types :
          /\ (get_metadata(Registry, t).some
              /\ get_metadata(Registry, t).value.lifecycle = "Prototype")
             => /\ get(Registry, t) = "Some"
                /\ get_singleton(Registry, t) = "None"
                /\ contains(Registry, t)
          /\ (get_metadata(Registry, t).some
              /\ get_metadata(Registry, t).value.lifecycle = "Singleton")
             => /\ get_singleton(Registry, t) = "Some"
                /\ get(Registry, t) = "None"
                /\ contains(Registry, t)
    /\ (last.op \in {"register", "register_with_dependencies"} /\ last.ret = "Ok")
       => /\ get(Registry, last.arg) = "Some"
          /\ get_singleton(Registry, last.arg) = "None"
          /\ contains(Registry, last.arg)
    /\ (last.op \in {"register_singleton", "register_singleton_with_dependencies"}
        /\ last.ret = "Ok")
       => /\ get_singleton(Registry, last.arg) = "Some"
          /\ get(Registry, last.arg) = "None"
          /\ contains(Registry, last.arg)

\* A prototype and a singleton are registered side by side.
C9_Witness ==
    /\ last.op = "register_singleton"
    /\ last.ret = "Ok"
    /\ \E t \in Types : t # last.arg /\ get(Registry, t) = "Some"

\* C10: after a successful register_with_dependencies or
\* register_singleton_with_dependencies, and after a registration,
\* add_dependency, remove or clear made through registry_mut(),
\* order_calculated is false.
C10_MutationMakesDirty ==
    (\/ (last.op \in RegisterCalls /\ last.ret = "Ok")
     \/ (last.op = "remove" /\ last.ret = TRUE)
     \/ last.op \in {"add_dependency", "clear"})
    => ~get_injection_stats(Injector).initialization_order_calculated

\* register_with_dependencies has succeeded on an injector whose order had
\* been computed before.
C10_Witness ==
    /\ last.op = "register_with_dependencies"
    /\ last.ret = "Ok"
    /\ initialization_order # <<>>
    /\ ~order_calculated

----------------------------------------------------------------------------
\* The orders calculate_initialization_order can produce on registry r, one
\* per iteration order of the metadata map.
ComputableOrders(r) ==
    {TopologicalSort(r, ord).result : ord \in Orders(DOMAIN r.metadata)}

\* C11: whenever order_calculated is true, the cached initialization_order
\* is an order the computation produces on the current registry: a
\* permutation of the currently registered types that the sort yields from
\* the current edge table.  What get_initialization_order returns then
\* mentions no removed component and omits no registered one.
C11_CachedOrderIsCurrent ==
    /\ order_calculated =>
          /\ initialization_order \in ComputableOrders(Registry)
          /\ Range(initialization_order) = Registered
          /\ Len(initialization_order) = Cardinality(Registered)
    /\ \A ord \in Orders(DOMAIN metadata) :
          LET res == get_initialization_order(Injector, ord)
          IN  res.ret = "Ok" =>
                 /\ Range(res.order) = Registered
                 /\ Len(res.order) = Cardinality(Registered)

\* The order has been recomputed on a registry that lost a component of the
\* edge table: the cached order is the one remaining component.
C11_Witness ==
    /\ last.op = "get_initialization_order"
    /\ last.ret = "Ok"
    /\ order_calculated
    /\ Len(initialization_order) = 1
    /\ \E x \in DOMAIN dependencies : \E i \in 1..Len(dependencies[x]) :
          ~contains_type_id(Registry, dependencies[x][i])

\* The registered components that declare a dependency on an unregistered type.
Unresolved(r) ==
    {x \in DOMAIN r.components \cup DOMAIN r.singletons :
        \E e \in Edges(r.dependencies) :
            e[1] = x /\ e[2] \notin DOMAIN r.components \cup DOMAIN r.singletons}

\* C12: when the edge table is acyclic and every dependency declared by a
\* registered component is registered, auto_wire returns Ok and leaves
\* order_calculated true, which Container::stats reports as auto_wired; and
\* once order_calculated is true, auto_wire and get_initialization_order
\* leave it true (the queries take &self and change nothing).
C12_WiringCachesOrder ==
    [][/\ (/\ last'.op = "auto_wire"
           /\ ~HasCycle(Edges(dependencies))
           /\ Unresolved(Registry) = {})
          => /\ last'.ret = "Ok"
             /\ order_calculated'
             /\ Container_stats(Injector').auto_wired
             /\ get_injection_stats(Injector').initialization_order_calculated
       /\ (order_calculated /\ last'.op \in OrderCalls) => order_calculated'
      ]_vars

\* auto_wire has succeeded on two registered components, one of them a
\* singleton the other depends on.
C12_Witness ==
    /\ last.op = "auto_wire"
    /\ last.ret = "Ok"
    /\ Container_stats(Injector).auto_wired
    /\ \E x \in DOMAIN components, y \in DOMAIN singletons :
          <<x, y>> \in Edges(dependencies)

\* The names an error about a missing dependency can carry on registry r.
UnresolvedNames(r) == {r.metadata[x].name : x \in Unresolved(r)}

\* The unregistered types some registered component of r depends on.
MissingTypes(r) ==
    {e[2] : e \in {f \in Edges(r.dependencies) :
                      /\ f[1] \in Unresolved(r)
                      /\ f[2] \notin DOMAIN r.components \cup DOMAIN r.singletons}}

\* C13: add_dependency always succeeds and register_with_dependencies and
\* register_singleton_with_dependencies fail only on a type that is already
\* registered, never because a listed dependency is unregistered.  While a
\* registered component depends on an unregistered type, validate_dependencies
\* fails with the missing-dependency error naming such a component, so does
\* auto_wire on an acyclic edge table, and get and get_singleton of the
\* missing type are None.  When the one missing type is then registered and
\* nothing else is unresolved, validate_dependencies succeeds, and so does
\* auto_wire on an acyclic edge table.
C13_MissingDependencyIsDeferred ==
    [][/\ last'.op = "add_dependency" => last'.ret = "Ok"
       /\ (/\ last'.op \in {"register_with_dependencies",
                            "register_singleton_with_dependencies"}
           /\ last'.arg \notin Registered)
          => last'.ret = "Ok"
       /\ Unresolved(Registry') # {} =>
             /\ \A ord \in Orders(DOMAIN metadata') :
                   LET v == validate_dependencies(Injector', ord)
                   IN  /\ v.ret = "DependencyNotFound"
                       /\ v.name \in UnresolvedNames(Registry')
             /\ ~HasCycle(Edges(dependencies')) =>
                   \A keys \in Orders(DOMAIN dependencies'),
                      ord \in Orders(DOMAIN metadata') :
                       LET w == auto_wire(Injector', keys, ord)
                       IN  /\ w.ret = "DependencyNotFound"
                           /\ w.name \in UnresolvedNames(Registry')
             /\ \A t \in MissingTypes(Registry') :
                   /\ get(Registry', t) = "None"
                   /\ get_singleton(Registry', t) = "None"
       /\ (/\ MissingTypes(Registry) = {last'.arg}
           /\ last'.op \in RegisterCalls
           /\ last'.ret = "Ok"
           /\ Unresolved(Registry') = {})
          => /\ \A ord \in Orders(DOMAIN metadata') :
                   validate_dependencies(Injector', ord).ret = "Ok"
             /\ ~HasCycle(Edges(dependencies')) =>
                   \A keys \in Orders(DOMAIN dependencies'),
                      ord \in Orders(DOMAIN metadata') :
                       auto_wire(Injector', keys, ord).ret = "Ok"
      ]_vars

\* A component had been registered with a dependency on an unregistered type;
\* that type has now been registered and the dependency graph validates.
C13_Witness ==
    /\ last.op \in {"register", "register_singleton"}
    /\ last.ret = "Ok"
    /\ \E x \in Registered : x # last.arg /\ <<x, last.arg>> \in Edges(dependencies)
    /\ Unresolved(Registry) = {}
    /\ ~HasCycle(Edges(dependencies))
    /\ \A ord \in Orders(DOMAIN metadata) :
          validate_dependencies(Injector, ord).ret = "Ok"

\* C14: the prototype store and the singleton store have disjoint key sets;
\* the metadata table has exactly the keys of the two stores; a metadata
\* record says Singleton exactly when its type is in the singleton store;
\* stats() reports total = prototypes + singletons = number of metadata
\* records.
C14_StoresAndMetadataAgree ==
    /\ DOMAIN components \cap DOMAIN singletons = {}
    /\ DOMAIN metadata = DOMAIN components \cup DOMAIN singletons
    /\ \A t \in DOMAIN metadata :
          /\ metadata[t].type_id = t
          /\ metadata[t].lifecycle = "Singleton" <=> t \in DOMAIN singletons
          /\ metadata[t].lifecycle = "Prototype" <=> t \in DOMAIN components
    /\ stats(Registry).prototype_components = Cardinality(DOMAIN components)
    /\ stats(Registry).singleton_components = Cardinality(DOMAIN singletons)
    /\ stats(Registry).total_components
          = stats(Registry).prototype_components
            + stats(Registry).singleton_components
    /\ \A ord \in Orders(DOMAIN metadata) :
          Len(list_components(Registry, ord)) = stats(Registry).total_components

\* A component has been removed next to a singleton that stays registered.
C14_Witness ==
    /\ last.op = "remove"
    /\ last.ret = TRUE
    /\ last.arg \notin DOMAIN metadata
    /\ stats(Registry).singleton_components = 1
    /\ stats(Registry).total_components = 1

\* C15: right after clear(), for every type T: contains is false, get and
\* get_singleton are None, get_dependencies is empty; list_components() is
\* empty and every count of stats() is zero; and T can be registered again
\* under either lifecycle.
C15_ClearEmptiesRegistry ==
    last.op = "clear" =>
       /\ \A t \in Types :
             /\ ~contains(Registry, t)
             /\ ~contains_type_id(Registry, t)
             /\ get(Registry, t) = "None"
             /\ get_singleton(Registry, t) = "None"
             /\ ~get_metadata(Registry, t).some
             /\ get_dependencies(Registry, t) = <<>>
             /\ \A name \in NameArgs :
                   /\ register(Registry, t, name).ret = "Ok"
                   /\ register_singleton(Registry, t, name).ret = "Ok"
       /\ \A ord \in Orders(DOMAIN metadata) : list_components(Registry, ord) = <<>>
       /\ stats(Registry).total_components = 0
       /\ stats(Registry).prototype_components = 0
       /\ stats(Registry).singleton_components = 0

\* clear() has run on an injector whose order had been computed over two
\* registered components.
C15_Witness ==
    /\ last.op = "clear"
    /\ Len(initialization_order) = 2
    /\ ~order_calculated

\* C18: auto_wire and get_initialization_order leave both stores, the
\* metadata table and the edge table as they were, whatever they return;
\* validate_dependencies takes &self and yields a result only.  A missing
\* dependency is never fabricated and no edge is pruned.
C18_WiringKeepsRegistry ==
    [][last'.op \in OrderCalls
          => /\ UNCHANGED <<components, singletons, metadata, dependencies>>
             /\ \A keys \in Orders(DOMAIN dependencies),
                   ord \in Orders(DOMAIN metadata) :
                   /\ auto_wire(Injector, keys, ord).inj.registry = Registry
                   /\ get_initialization_order(Injector, ord).inj.registry = Registry
      ]_vars

\* auto_wire has failed on a missing dependency, and the dependency is still
\* declared and still unregistered.
C18_Witness ==
    /\ last.op = "auto_wire"
    /\ last.ret = "DependencyNotFound"
    /\ Unresolved(Registry) # {}
    /\ MissingTypes(Registry) \cap Registered = {}
    /\ MissingTypes(Registry) # {}

\* C19: from any reachable state, a second auto_wire right after a first one
\* returns what the first returned, whatever iteration orders the two calls
\* meet; after a first success the second call leaves initialization_order
\* and order_calculated as the first left them.
C19_AutoWireIdempotent ==
    \A keys1 \in Orders(DOMAIN dependencies), ord1 \in Orders(DOMAIN metadata),
       keys2 \in Orders(DOMAIN dependencies), ord2 \in Orders(DOMAIN metadata) :
        LET first == auto_wire(Injector, keys1, ord1)
            second == auto_wire(first.inj, keys2, ord2)
        IN  /\ second.ret = first.ret
            /\ second.name = first.name
            /\ first.ret = "Ok" =>
                  /\ second.inj.initialization_order = first.inj.initialization_order
                  /\ second.inj.order_calculated = first.inj.order_calculated
                  /\ second.inj.order_calculated

\* auto_wire has succeeded on two independent components, which the sort can
\* emit in either order.
C19_Witness ==
    /\ last.op = "auto_wire"
    /\ last.ret = "Ok"
    /\ Len(initialization_order) = 2
    /\ Cardinality(ComputableOrders(Registry)) = 2

\* The injector after one more add_dependency(e[1], e[2]) through
\* registry_mut().
DeclaredAgain(inj, e) ==
    [registry_mut(inj) EXCEPT
        !.registry = add_dependency(inj.registry, e[1], e[2])]

\* What the wiring calls return on injector inj, over every iteration order
\* of its maps.
WiringOutcomes(inj) ==
    [detect |-> {detect_circular_dependencies(inj.registry, keys) :
                    keys \in Orders(DOMAIN inj.registry.dependencies)},
     validate |-> {validate_dependencies(inj, ord) :
                      ord \in Orders(DOMAIN inj.registry.metadata)},
     wire |-> {auto_wire(inj, keys, ord).ret :
                  keys \in Orders(DOMAIN inj.registry.dependencies),
                  ord \in Orders(DOMAIN inj.registry.metadata)},
     order |-> {get_initialization_order(inj, ord).ret :
                   ord \in Orders(DOMAIN inj.registry.metadata)}]

\* C20 as stated: declaring an already declared edge X -> Y once more
\* changes neither what detect_circular_dependencies, validate_dependencies
\* and auto_wire return nor the set of initialization orders the computation
\* can produce.
C20_DuplicateEdgeHarmless ==
    \A e \in Edges(dependencies) :
        /\ WiringOutcomes(DeclaredAgain(Injector, e))
              = WiringOutcomes(registry_mut(Injector))
        /\ ComputableOrders(DeclaredAgain(Injector, e).registry)
              = ComputableOrders(Registry)

\* C20, amended: on every registry an injector is built on, declaring an
\* already declared edge once more changes neither what
\* detect_circular_dependencies, validate_dependencies, auto_wire and
\* get_initialization_order return nor which components a computed order
\* holds: for one and the same iteration order of the maps the results are
\* the same and the computed orders are permutations of each other.
C20_DuplicateEdgeKeepsOutcome ==
    last.op = "with_registry" =>
    \A e \in Edges(dependencies) :
        LET once == registry_mut(Injector)
            twice == DeclaredAgain(Injector, e)
        IN  /\ DOMAIN twice.registry.dependencies = DOMAIN dependencies
            /\ \A keys \in Orders(DOMAIN dependencies),
                  ord \in Orders(DOMAIN metadata) :
                  /\ detect_circular_dependencies(twice.registry, keys)
                        = detect_circular_dependencies(once.registry, keys)
                  /\ validate_dependencies(twice, ord)
                        = validate_dependencies(once, ord)
                  /\ auto_wire(twice, keys, ord).ret
                        = auto_wire(once, keys, ord).ret
                  /\ LET o1 == get_initialization_order(once, ord)
                         o2 == get_initialization_order(twice, ord)
                     IN  /\ o2.ret = o1.ret
                         /\ Range(o2.order) = Range(o1.order)
                         /\ Len(o2.order) = Len(o1.order)

\* An injector is built on three registered components, one depending on the
\* two others, which are declared in one order and computed in the other once
\* the first edge is declared again.
C20_Witness ==
    /\ last.op = "with_registry"
    /\ Cardinality(Registered) = 3
    /\ \E e \in Edges(dependencies) :
          /\ ComputableOrders(DeclaredAgain(Injector, e).registry)
                # ComputableOrders(Registry)
          /\ \A keys \in Orders(DOMAIN dependencies),
                ord \in Orders(DOMAIN metadata) :
                /\ auto_wire(registry_mut(Injector), keys, ord).ret = "Ok"
                /\ auto_wire(DeclaredAgain(Injector, e), keys, ord).ret = "Ok"

----------------------------------------------------------------------------
\* The holders whose handle is an Arc<t>.
HoldersOf(t) == {h \in Holders : handles[h].type_id = t}

C17_StrongCountIsHolders ==
    /\ [](/\ DOMAIN arc_ptr = DOMAIN singletons
          /\ \A t \in DOMAIN arc_ptr : arc_ptr[t] \in DOMAIN arc_strong
          /\ \A t1 \in DOMAIN arc_ptr, t2 \in DOMAIN arc_ptr :
                arc_ptr[t1] = arc_ptr[t2] => t1 = t2
          /\ \A h \in Holders :
                handles[h] # NoHandle => handles[h].ptr \in DOMAIN arc_strong
          /\ \A p \in DOMAIN arc_strong :
                arc_strong[p]
                   = Cardinality({t \in DOMAIN arc_ptr : arc_ptr[t] = p})
                     + Cardinality({h \in Holders : handles[h].ptr = p}))
    /\ [][/\ (last'.op = "get_singleton" /\ last'.ret = "None")
             => UNCHANGED <<arc_ptr, arc_strong, handles>>
          /\ \A p \in DOMAIN arc_strong \ DOMAIN arc_strong' :
                /\ arc_strong[p] = 1
                /\ last'.op \in {"remove", "clear", "drop"}
         ]_vars

\* A singleton was removed while a holder kept its handle: the instance is
\* alive on that one handle.
C17_Witness ==
    /\ last.op = "remove"
    /\ last.ret = TRUE
    /\ \E h \in Holders :
          /\ handles[h].type_id = last.arg
          /\ handles[h].ptr \in DOMAIN arc_strong
          /\ arc_strong[handles[h].ptr] = 1
          /\ \A t \in DOMAIN arc_ptr : arc_ptr[t] # handles[h].ptr

----------------------------------------------------------------------------
\* C21: get_dependencies(id) is the empty sequence when the edge table has no
\* list for id; add_dependency(X, Y) appends Y to X's list, duplicates kept,
\* and changes nothing else: both stores, the metadata and every other
\* type's list stay as they were; a successful register*_with_dependencies
\* appends its dependency list to the type's list in the order given; only
\* remove::<id>() returning true and clear() take a list away, and no other
\* call changes the edge table.
C21_EdgesAreAppendOnly ==
    [][/\ \A x \in Types :
             x \notin DOMAIN dependencies' => get_dependencies(Registry', x) = <<>>
       /\ \A x \in Types, y \in Types :
             LET r2 == add_dependency(Registry, x, y)
             IN  /\ get_dependencies(r2, x) = Append(get_dependencies(Registry, x), y)
                 /\ \A z \in Types \ {x} :
                       get_dependencies(r2, z) = get_dependencies(Registry, z)
                 /\ r2.components = components
                 /\ r2.singletons = singletons
                 /\ r2.metadata = metadata
       /\ last'.op = "add_dependency" =>
             /\ \E y \in Types :
                   get_dependencies(Registry', last'.arg)
                      = Append(get_dependencies(Registry, last'.arg), y)
             /\ \A z \in Types \ {last'.arg} :
                   get_dependencies(Registry', z) = get_dependencies(Registry, z)
             /\ UNCHANGED <<components, singletons, metadata>>
       /\ (/\ last'.op \in {"register_with_dependencies",
                            "register_singleton_with_dependencies"}
           /\ last'.ret = "Ok") =>
             /\ \E deps \in SeqsUpTo(MaxDepsArg) :
                   get_dependencies(Registry', last'.arg)
                      = get_dependencies(Registry, last'.arg) \o deps
             /\ \A z \in Types \ {last'.arg} :
                   get_dependencies(Registry', z) = get_dependencies(Registry, z)
       /\ \A x \in Types :
             get_dependencies(Registry', x) # get_dependencies(Registry, x) =>
                \/ last'.op = "add_dependency" /\ last'.arg = x
                \/ /\ last'.op \in {"register_with_dependencies",
                                    "register_singleton_with_dependencies"}
                   /\ last'.arg = x /\ last'.ret = "Ok"
                \/ last'.op = "remove" /\ last'.arg = x /\ last'.ret = TRUE
                \/ last'.op = "clear"
      ]_vars

\* A registered type has declared the same dependency twice.
C21_Witness ==
    /\ last.op = "add_dependency"
    /\ last.arg \in Registered
    /\ \E y \in Types \ {last.arg} :
          get_dependencies(Registry, last.arg) = <<y, y>>

\* C22: remove::<T>() returns true exactly when T was in one of the stores
\* before the call.  When it returns true, T's storage entry, metadata record
\* and edge list are gone and every other type's storage, metadata and edge
\* list are as before, the edges other types declare on T included; when it
\* returns false the registry is as before.
C22_RemoveFrame ==
    [][last'.op = "remove" =>
          LET t == last'.arg
          IN  /\ last'.ret = (t \in DOMAIN components \/ t \in DOMAIN singletons)
              /\ last'.ret = remove(Registry, t).ret
              /\ last'.ret = TRUE =>
                    /\ t \notin DOMAIN components'
                    /\ t \notin DOMAIN singletons'
                    /\ t \notin DOMAIN metadata'
                    /\ t \notin DOMAIN dependencies'
                    /\ components' = MapRemove(components, t)
                    /\ singletons' = MapRemove(singletons, t)
                    /\ metadata' = MapRemove(metadata, t)
                    /\ dependencies' = MapRemove(dependencies, t)
                    /\ \A x \in DOMAIN dependencies \ {t} :
                          dependencies'[x] = dependencies[x]
              /\ last'.ret = FALSE =>
                    UNCHANGED <<components, singletons, metadata, dependencies>>
      ]_vars

\* A component was removed and the edge another registered component
\* declares on it is still in the table.
C22_Witness ==
    /\ last.op = "remove"
    /\ last.ret = TRUE
    /\ \E x \in Registered : last.arg \in Range(get_dependencies(Registry, x))

\* C23: detect_circular_dependencies returns the circular-dependency error
\* exactly when the edge table has a directed cycle, a self-edge included,
\* whatever the iteration order of the table's keys; an acyclic table in
\* which a node is reached along several paths or an edge is repeated is
\* accepted.
C23_CycleCheckExact ==
    \A keys \in Orders(DOMAIN dependencies) :
        (detect_circular_dependencies(Registry, keys) = "CircularDependency")
           <=> HasCycle(Edges(dependencies))

\* The diamond: one type depends on two types that both depend on a fourth,
\* and the check has returned Ok.
C23_Witness ==
    /\ last.op = "detect_circular_dependencies"
    /\ last.ret = "Ok"
    /\ \E a \in DetectTypes, b \in DetectTypes, c \in DetectTypes, d \in DetectTypes :
          /\ Cardinality({a, b, c, d}) = 4
          /\ Edges(dependencies) = {<<a, b>>, <<a, c>>, <<b, d>>, <<c, d>>}

\* The edges between registered components.
RegisteredEdges ==
    {e \in Edges(dependencies) : e[1] \in Registered /\ e[2] \in Registered}

\* C24: while the edges among registered components have a directed cycle,
\* no order is cached and get_initialization_order returns the
\* topological-sort error, returns no order and caches nothing, for every
\* iteration order; whenever it returns Ok the order holds every registered
\* type, never fewer.
C24_CycleFailsOrder ==
    /\ HasCycle(RegisteredEdges) =>
          /\ ~order_calculated
          /\ last.op = "get_initialization_order" => last.ret = "TopologicalSortFailed"
          /\ \A ord \in Orders(DOMAIN metadata) :
                LET g == get_initialization_order(Injector, ord)
                IN  /\ g.ret = "TopologicalSortFailed"
                    /\ ErrorVariant(g.ret) = "DependencyInjection"
                    /\ g.order = <<>>
                    /\ ~g.inj.order_calculated
                    /\ g.inj.initialization_order = initialization_order
                    /\ g.inj.registry = Registry
    /\ \A ord \in Orders(DOMAIN metadata) :
          LET g == get_initialization_order(Injector, ord)
          IN  g.ret = "Ok" =>
                 /\ Len(g.order) = Cardinality(Registered)
                 /\ Range(g.order) = Registered

\* get_initialization_order has failed on three registered components of
\* which two depend on each other; the third alone was emitted by the sort.
C24_Witness ==
    /\ last.op = "get_initialization_order"
    /\ last.ret = "TopologicalSortFailed"
    /\ Cardinality(Registered) = 3
    /\ HasCycleOfTwo(RegisteredEdges)
    /\ \E ord \in Orders(DOMAIN metadata) :
          Len(TopologicalSort(Registry, ord).result) = 1
    /\ initialization_order = <<>>

\* C25 as stated: when a registered component declares a dependency on a
\* type that has no metadata record, get_initialization_order returns an
\* error instead of an order.
C25_DanglingEdgeFailsOrder ==
    Unresolved(Registry) # {} =>
       \A ord \in Orders(DOMAIN metadata) :
          get_initialization_order(Injector, ord).ret # "Ok"

\* C25, amended: the order computation skips the edges that reference a
\* type with no metadata record.  get_initialization_order returns an error
\* exactly when the edges among registered components have a cycle;
\* otherwise it returns Ok with an order of all registered types, dangling
\* edges or not, and the missing dependency is reported by
\* validate_dependencies only.
C25_DanglingEdgeIgnoredByOrder ==
    \A ord \in Orders(DOMAIN metadata) :
        LET g == get_initialization_order(Injector, ord)
        IN  /\ (g.ret = "Ok") <=> ~HasCycle(RegisteredEdges)
            /\ g.ret \in {"Ok", "TopologicalSortFailed"}
            /\ (g.ret = "Ok" /\ Unresolved(Registry) # {}) =>
                  /\ Range(g.order) = Registered
                  /\ Unresolved(Registry) \subseteq Range(g.order)
                  /\ validate_dependencies(Injector, ord).ret = "DependencyNotFound"

\* get_initialization_order has returned an order of two components of which
\* one depends on a type that is not registered.
C25_Witness ==
    /\ last.op = "get_initialization_order"
    /\ last.ret = "Ok"
    /\ order_calculated
    /\ Len(initialization_order) = 2
    /\ Unresolved(Registry) # {}

\* The names a caller passes as Some(name) or as a String.
Names == NameArgs \ {"None"}

\* C26 as stated: in every container state each registration of the facade
\* returns what register_with_dependencies or
\* register_singleton_with_dependencies returns for the same type, the same
\* name and no dependencies, and leaves the same injector state, on success
\* and on a duplicate registration alike.
C26_FacadeEqualsInjector ==
    \A t \in Types :
        /\ Container_register(Injector, t)
              = register_with_dependencies(Injector, t, "None", <<>>)
        /\ Container_register_singleton(Injector, t)
              = register_singleton_with_dependencies(Injector, t, "None", <<>>)
        /\ \A name \in Names :
              /\ Container_register_named(Injector, t, name)
                    = register_with_dependencies(Injector, t, name, <<>>)
              /\ Container_register_singleton_named(Injector, t, name)
                    = register_singleton_with_dependencies(Injector, t, name, <<>>)

\* What makes two registration results agree in all but order_calculated
\* after a duplicate: facade is the result of the facade's call, direct that
\* of the injector's own method, before the injector the two were called on.
SameButFlagOnDuplicate(before, facade, direct) ==
    /\ facade.ret = direct.ret
    /\ facade.ret \in {"Ok", "DuplicateRegistration"}
    /\ facade.inj.registry = direct.inj.registry
    /\ facade.inj.initialization_order = direct.inj.initialization_order
    /\ ~facade.inj.order_calculated
    /\ facade.ret = "Ok" => facade.inj = direct.inj
    /\ facade.ret = "DuplicateRegistration" =>
          /\ facade.inj.registry = before.registry
          /\ direct.inj = before

\* C26, amended: each registration of the facade returns what the injector's
\* register*_with_dependencies returns for the same type, name and no
\* dependencies, and leaves the same registry and the same cached order; on
\* success the whole injector state is the same; on a duplicate the facade
\* has cleared order_calculated, registry_mut() being called before the
\* registry refuses, while the injector's own method leaves the flag as it
\* was.
C26_FacadeEqualsInjectorButFlag ==
    \A t \in Types :
        /\ SameButFlagOnDuplicate(Injector,
              Container_register(Injector, t),
              register_with_dependencies(Injector, t, "None", <<>>))
        /\ SameButFlagOnDuplicate(Injector,
              Container_register_singleton(Injector, t),
              register_singleton_with_dependencies(Injector, t, "None", <<>>))
        /\ \A name \in Names :
              /\ SameButFlagOnDuplicate(Injector,
                    Container_register_named(Injector, t, name),
                    register_with_dependencies(Injector, t, name, <<>>))
              /\ SameButFlagOnDuplicate(Injector,
                    Container_register_singleton_named(Injector, t, name),
                    register_singleton_with_dependencies(Injector, t, name, <<>>))

\* The order of a registered component is cached: a registration of that
\* type is a duplicate, and one of the other type succeeds.
C26_Witness ==
    /\ order_calculated
    /\ Cardinality(Registered) = 1
    /\ \E t \in Registered :
          /\ Container_register(Injector, t).ret = "DuplicateRegistration"
          /\ register_with_dependencies(Injector, t, "None", <<>>).inj.order_calculated
    /\ \E t \in Types \ Registered :
          Container_register_singleton_named(Injector, t, "svc").ret = "Ok"

\* C27: a registration of T that fails as a duplicate leaves T registered;
\* remove::<T>() then returns true, and a register or register_singleton of
\* T right after it succeeds under either lifecycle, whatever the lifecycle
\* was.  Afterwards T has one metadata record, written by this registration
\* with the new lifecycle, T is returned by the accessor of the new
\* lifecycle only, and T has no outgoing edges.
C27_ReRegisterAfterRemove ==
    [][/\ (last'.op \in {"register", "register_singleton"}
           /\ last'.ret = "DuplicateRegistration")
          => /\ contains(Registry', last'.arg)
             /\ remove(Registry', last'.arg).ret = TRUE
             /\ \A name \in NameArgs :
                   LET removed == remove(Registry', last'.arg).reg
                   IN  /\ register(removed, last'.arg, name).ret = "Ok"
                       /\ register_singleton(removed, last'.arg, name).ret = "Ok"
       /\ (/\ last.op = "remove" /\ last.ret = TRUE
           /\ last'.op \in {"register", "register_singleton"}
           /\ last'.arg = last.arg)
          => LET t == last'.arg
                 lifecycle == IF last'.op = "register" THEN "Prototype"
                              ELSE "Singleton"
             IN  /\ last'.ret = "Ok"
                 /\ get_metadata(Registry', t).some
                 /\ \E name \in NameArgs :
                       get_metadata(Registry', t).value = Metadata(t, name, lifecycle)
                 /\ \A ord \in Orders(DOMAIN metadata') :
                       Cardinality({i \in 1..Len(ord) :
                                       list_components(Registry', ord)[i].type_id = t}) = 1
                 /\ get(Registry', t)
                       = IF lifecycle = "Prototype" THEN "Some" ELSE "None"
                 /\ get_singleton(Registry', t)
                       = IF lifecycle = "Singleton" THEN "Some" ELSE "None"
                 /\ get_dependencies(Registry', t) = <<>>
      ]_vars

\* A type that was in a computed order has been registered again as a
\* singleton, and only get_singleton returns it.
C27_Witness ==
    /\ last.op = "register_singleton"
    /\ last.ret = "Ok"
    /\ last.arg \in Range(initialization_order)
    /\ ~order_calculated
    /\ get_dependencies(Registry, last.arg) = <<>>
    /\ get(Registry, last.arg) = "None"
    /\ get_singleton(Registry, last.arg) = "Some"

\* A sequence without repetitions.
NoRepeats(s) == \A i \in 1..Len(s), j \in 1..Len(s) : s[i] = s[j] => i = j

\* C28: on every registry, with cycles, self-edges, repeated edges and edges
\* to or from unregistered types, the four graph calls return: the
\* depth-first search of detect_circular_dependencies expands each node of
\* the edge table at most once, the work queue of the order computation
\* dequeues each registered type at most once and runs empty, and
\* validate_dependencies, get_initialization_order and auto_wire each yield
\* one of their results.
C28_GraphCallsDoBoundedWork ==
    /\ \A keys \in Orders(DOMAIN dependencies) :
          LET st == DetectLoop(Registry, keys, 1, NewSearch)
          IN  /\ NoRepeats(st.expanded)
              /\ Range(st.expanded) \subseteq Nodes(Edges(dependencies))
              /\ Range(st.expanded) = st.visited
              /\ Len(st.expanded) <= Cardinality(Nodes(Edges(dependencies)))
              /\ detect_circular_dependencies(Registry, keys)
                    \in {"Ok", "CircularDependency"}
    /\ \A ord \in Orders(DOMAIN metadata) :
          LET ks == TopologicalSort(Registry, ord)
          IN  /\ NoRepeats(ks.result)
              /\ Range(ks.result) \subseteq DOMAIN metadata
              /\ Len(ks.result) <= Cardinality(DOMAIN metadata)
              /\ ks.queue = <<>>
              /\ validate_dependencies(Injector, ord).ret
                    \in {"Ok", "DependencyNotFound"}
              /\ get_initialization_order(Injector, ord).ret
                    \in {"Ok", "TopologicalSortFailed"}
    /\ \A keys \in Orders(DOMAIN dependencies), ord \in Orders(DOMAIN metadata) :
          auto_wire(Injector, keys, ord).ret
             \in {"Ok", "CircularDependency", "DependencyNotFound"}

\* auto_wire has stopped at the cycle check on an edge table with a
\* self-edge and a repeated edge to an unregistered type.
C28_Witness ==
    /\ last.op = "auto_wire"
    /\ last.ret = "CircularDependency"
    /\ \E x \in GraphTypes : <<x, x>> \in Edges(dependencies)
    /\ \E x \in DOMAIN dependencies :
          \E i \in 1..Len(dependencies[x]), j \in 1..Len(dependencies[x]) :
             i # j /\ dependencies[x][i] = dependencies[x][j]
                   /\ dependencies[x][i] \notin Registered

\* C29: on every registry, with acyclic or cyclic edges, self-edges,
\* repeated edges, edges to unregistered types and edges declared by
\* unregistered types, the order computation never decrements an in-degree
\* of zero and never enqueues a type twice: the counters end at zero or
\* above, and the types taken from the queue are pairwise different.
C29_NoUnderflowNoDoubleEnqueue ==
    \A ord \in Orders(DOMAIN metadata) :
        LET ks == TopologicalSort(Registry, ord)
        IN  /\ ~ks.underflow
            /\ \A t \in DOMAIN ks.in_degree :
                  /\ ks.in_degree[t] \in Nat
                  /\ ks.in_degree[t] <= InDegree(Registry)[t]
                  /\ t \in Range(ks.result) => ks.in_degree[t] = 0
            /\ NoRepeats(ks.result \o ks.queue)
            /\ calculate_initialization_order(registry_mut(Injector), ord).ret # "Panic"

\* The order of three components has been computed over an edge repeated
\* between two of them, all its counters brought back to zero.
C29_Witness ==
    /\ last.op = "get_initialization_order"
    /\ last.ret = "Ok"
    /\ Len(initialization_order) = 3
    /\ \E x \in Registered :
          \E i \in 1..Len(get_dependencies(Registry, x)),
             j \in 1..Len(get_dependencies(Registry, x)) :
             /\ i # j
             /\ dependencies[x][i] = dependencies[x][j]
             /\ dependencies[x][i] \in Registered
             /\ InDegree(Registry)[dependencies[x][i]] >= 2

\* C30: in every state of the context's container, a component that
\* ApplicationContext::register or ApplicationContext::register_singleton has
\* registered without a duplicate rejection is returned by
\* ApplicationContext::get for its type afterwards, also after an auto_wire;
\* every call holding the lock from start to end, a get finds no storage
\* entry without its metadata record.
C30_ContextGetReturnsRegistered ==
    /\ \A t \in Types :
          /\ LET reg == ApplicationContext_register(Injector, t)
             IN  ~reg.rejected =>
                    /\ ApplicationContext_get(reg.inj, t) = "Some"
                    /\ \A keys \in Orders(DOMAIN reg.inj.registry.dependencies),
                          ord \in Orders(DOMAIN reg.inj.registry.metadata) :
                          ApplicationContext_get(
                             ApplicationContext_auto_wire(reg.inj, keys, ord).inj, t)
                             = "Some"
          /\ LET reg == ApplicationContext_register_singleton(Injector, t)
             IN  ~reg.rejected => ApplicationContext_get(reg.inj, t) = "Some"
    /\ \A t \in Types :
          ApplicationContext_get(Injector, t) = "Some" => get_metadata(Registry, t).some

====
